---------------------------- MODULE Spec2Model ----------------------------
(***************************************************************************)
(* Order fulfilment and stock ledger of inventarioBack2.0 (src/src/index.ts)*)
(*                                                                         *)
(* The store is Firestore: the collections inventory, customers, orders    *)
(* and stockLogs.  POST /orders runs one transaction per call (reads, then *)
(* staged writes, then an atomic commit that is refused and retried when a *)
(* document it read was written meanwhile); PATCH /products/:id/stock is a *)
(* plain read followed by a plain write and a log write.                   *)
(***************************************************************************)
EXTENDS Integers, Sequences, FiniteSets, TLC

(***************************************************************************)
(* Bounds of the model.                                                    *)
(***************************************************************************)
NumOrders == 2      \* concurrent POST /orders calls
MaxAttempts == 2    \* attempts of one runTransaction (the client's default is 5)
NumAdjusts == 2     \* concurrent PATCH /products/:id/stock calls
NumReorders == 2    \* concurrent PATCH /categories/positions calls

Orders == 1..NumOrders
Adjusts == 1..NumAdjusts
Reorders == 1..NumReorders

ProductIds == {"P", "M", "Z"}      \* "Z" names no document
CustomerIds == {"C", "D"}          \* "D" names no document
CategoryIds == <<"A", "B", "C", "X">>   \* in the order of a listing; "X" names no document

NoDoc == [exists |-> FALSE]

VARIABLES
    inventory,   \* collection inventory: product id -> document
    customers,   \* collection customers: customer id -> document
    orders,      \* collection orders: order id (one per call) -> document
    stockLogs,   \* collection stockLogs, in the order the entries were added
    req,         \* POST /orders: the request body of each call
    pc,          \* POST /orders: where each call is
    tx,          \* POST /orders: the running transaction attempt of each call
    result,      \* POST /orders: the response of each call
    printed,     \* POST /orders: what printOrder has done for the call's order
    applied,     \* history: the documents each call's commit has written
    areq,        \* PATCH stock: the request of each call
    apc,         \* PATCH stock: where each call is
    asnap,       \* PATCH stock: productData and updatedSizes of each call
    aresult,     \* PATCH stock: the response of each call
    categories,  \* collection categories: category id -> document
    creq,        \* PATCH positions: the request body of each call
    cpc,         \* PATCH positions: where each call is
    csnap,       \* PATCH positions: existingCategories of each call
    ctx,         \* PATCH positions: the running transaction attempt of each call
    cresult,     \* PATCH positions: the response of each call
    preq,        \* POST /products, PUT /products/:id: the request
    ppc,         \* POST /products, PUT /products/:id: where the call is
    psizes,      \* PUT /products/:id: processedSizes
    presult,     \* POST /products, PUT /products/:id: the response
    rreq,        \* PATCH /categories/:id: the request
    rpc,         \* PATCH /categories/:id: where the call is
    rresult      \* PATCH /categories/:id: the response

vars == <<inventory, customers, orders, stockLogs, req, pc, tx, result,
          printed, applied, areq, apc, asnap, aresult,
          categories, creq, cpc, csnap, ctx, cresult,
          preq, ppc, psizes, presult, rreq, rpc, rresult>>

productVars == <<preq, ppc, psizes, presult>>

renameVars == <<rreq, rpc, rresult>>

reorderVars == <<categories, creq, cpc, csnap, ctx, cresult, renameVars>>

store == <<inventory, customers, orders, stockLogs>>

(***************************************************************************)
(* Sequences                                                               *)
(***************************************************************************)
RECURSIVE SumSeq(_)
SumSeq(s) == IF s = <<>> THEN 0 ELSE Head(s) + SumSeq(Tail(s))

SeqsUpTo(S, n) == UNION {[1..k -> S] : k \in 0..n}

(***************************************************************************)
(* Cost of a size at product creation and update.                          *)
(***************************************************************************)
\* Mutant: the quantity of a material is taken as it is.
MaterialCostAsGiven(material) == material.cost * material.quantity

\* material.cost * (material.quantity > 0 ? material.quantity : 1)
MaterialCost(material) ==
    material.cost * (IF material.quantity > 0 THEN material.quantity ELSE 1)

ProcessedSize(size) ==
    LET productionCost ==
            SumSeq([k \in DOMAIN size.materials |-> MaterialCost(size.materials[k])])
    IN  [name |-> size.name, price |-> size.price, quantity |-> size.quantity,
         materials |-> size.materials,
         productionCost |-> productionCost,
         profit |-> size.price - productionCost]

(***************************************************************************)
(* POST /orders: the body of the transaction, read by read.                *)
(***************************************************************************)
\* Mutant: the cost of an item does not count its quantity.
OrderProductionCostPerUnit(items) ==
    SumSeq([i \in DOMAIN items |->
        SumSeq([j \in DOMAIN items[i].materials |-> MaterialCost(items[i].materials[j])])])

\* items.reduce(... material.cost * (quantity > 0 ? quantity : 1) * item.quantity)
OrderProductionCost(items) ==
    SumSeq([i \in DOMAIN items |->
        SumSeq([j \in DOMAIN items[i].materials |->
            MaterialCost(items[i].materials[j]) * items[i].quantity])])

OrderData(r) ==
    [exists |-> TRUE, items |-> r.items, paymentMethod |-> r.paymentMethod,
     productionCost |-> OrderProductionCost(r.items), customerId |-> r.customerId]

\* !items || !paymentMethod || total === undefined
RequestRejected(r) == ~r.hasItems \/ r.paymentMethod = "" \/ ~r.hasTotal

\* The documents the transaction body reads, in the order it reads them.
RECURSIVE ItemReads(_, _)
ItemReads(items, i) ==
    IF i > Len(items) THEN <<>>
    ELSE <<[kind |-> "product", i |-> i, j |-> 0]>>
         \o [j \in DOMAIN items[i].materials |-> [kind |-> "material", i |-> i, j |-> j]]
         \o ItemReads(items, i + 1)

Plan(r) ==
    (IF r.customerId # "" THEN <<[kind |-> "customer", i |-> 0, j |-> 0]>> ELSE <<>>)
    \o ItemReads(r.items, 1)

ReadKey(r, op) ==
    CASE op.kind = "customer" -> <<"customers", r.customerId>>
      [] op.kind = "product"  -> <<"inventory", r.items[op.i].productId>>
      [] op.kind = "material" -> <<"inventory", r.items[op.i].materials[op.j].uid>>

\* product.sizes.map(size => size.name === item.name ? {...size, quantity - item.quantity} : size)
UpdatedSizes(product, item) ==
    [k \in DOMAIN product.sizes |->
        IF product.sizes[k].name = item.name
        THEN [product.sizes[k] EXCEPT !.quantity = @ - item.quantity]
        ELSE product.sizes[k]]

\* Mutant: a size that the product does not have is accepted.
SizeFoundAlways(product, item) == TRUE

\* if (!sizeFound) throw
SizeFound(product, item) ==
    \E k \in DOMAIN product.sizes : product.sizes[k].name = item.name

\* Mutant: the stock check is missing.
StockInsufficientNever(product, item) == FALSE

\* if (size.quantity < item.quantity) throw
StockInsufficient(product, item) ==
    \E k \in DOMAIN product.sizes :
        /\ product.sizes[k].name = item.name
        /\ product.sizes[k].quantity < item.quantity

TotalQuantity(sizes) == SumSeq([k \in DOMAIN sizes |-> sizes[k].quantity])

\* materialProduct.sizes.map(size => {...size, quantity - material.quantity * item.quantity})
MaterialSizes(materialProduct, material, item) ==
    [k \in DOMAIN materialProduct.sizes |->
        [materialProduct.sizes[k] EXCEPT !.quantity = @ - material.quantity * item.quantity]]

\* if (newQuantity < 0) throw
MaterialInsufficient(materialProduct, material, item) ==
    \E k \in DOMAIN materialProduct.sizes :
        materialProduct.sizes[k].quantity - material.quantity * item.quantity < 0

MaterialLogEntry(p, materialProduct, material, item) ==
    LET materialSizes == MaterialSizes(materialProduct, material, item)
    IN  [addedStock |-> -(material.quantity * item.quantity),
         totalStockBefore |-> IF materialProduct.sizes = <<>> THEN 0
                              ELSE materialProduct.sizes[1].quantity,
         totalStockAfter |-> IF materialSizes = <<>> THEN 0
                             ELSE materialSizes[1].quantity,
         notes |-> [kind |-> "order", order |-> p],
         productId |-> material.uid,
         productName |-> material.name,
         sizeName |-> IF materialProduct.sizes = <<>> THEN "Default"
                      ELSE materialProduct.sizes[1].name]

\* An attempt: the documents it has read, the writes staged in the
\* transaction, and the lists of the callback.
NoTx == [attempt |-> 0, step |-> 0, reads |-> {}, stale |-> FALSE, writes |-> <<>>,
         productUpdates |-> <<>>, materialUpdates |-> <<>>, stockLogs |-> <<>>]

FreshTx(n) == [NoTx EXCEPT !.attempt = n, !.step = 1]

\* Mutant: the staged lists live outside the callback and survive a retry.
RetryTxKeepsStaged(t) ==
    [t EXCEPT !.attempt = @ + 1, !.step = 1, !.reads = {}, !.stale = FALSE]

\* Mutant: a refused attempt is not counted.
RetryTxUncounted(t) == FreshTx(t.attempt)

\* runTransaction calls the callback again: productUpdates, materialUpdates
\* and stockLogs are declared inside it and start empty.
RetryTx(t) == FreshTx(t.attempt + 1)

\* What one transaction.get and the checks after it do to the attempt:
\* the error it throws ("" when none) and the attempt's next state.  The
\* client refuses a transaction.get once a write is staged in the transaction.
ReadError(p, t, inv, cust) ==
    LET r == req[p]
        op == Plan(r)[t.step]
    IN  IF t.writes # <<>> THEN "ReadAfterWrite"
        ELSE
        CASE op.kind = "customer" ->
                IF ~cust[r.customerId].exists THEN "CustomerNotFound" ELSE ""
          [] op.kind = "product" ->
                LET item == r.items[op.i]
                    product == inv[item.productId]
                IN  IF ~product.exists THEN "ProductNotFound"
                    ELSE IF StockInsufficient(product, item) THEN "InsufficientStock"
                    ELSE IF ~SizeFound(product, item) THEN "SizeNotFound"
                    ELSE ""
          [] op.kind = "material" ->
                LET item == r.items[op.i]
                    material == item.materials[op.j]
                    materialProduct == inv[material.uid]
                IN  IF ~materialProduct.exists THEN "MaterialNotFound"
                    ELSE IF MaterialInsufficient(materialProduct, material, item)
                         THEN "InsufficientMaterial"
                    ELSE ""

\* Mutant: the update of a product is staged in the transaction as soon as
\* it is computed.
StagedAtOnce(p, t, inv) ==
    LET r == req[p]
        op == Plan(r)[t.step]
        next == [t EXCEPT !.step = @ + 1, !.reads = @ \cup {ReadKey(r, op)}]
    IN  CASE op.kind = "customer" -> next
          [] op.kind = "product" ->
                LET item == r.items[op.i]
                    updatedSizes == UpdatedSizes(inv[item.productId], item)
                    update == [ref |-> item.productId, sizes |-> updatedSizes,
                               totalQuantity |-> TotalQuantity(updatedSizes)]
                IN  [next EXCEPT !.productUpdates = Append(@, update),
                                 !.writes = Append(@, update)]
          [] op.kind = "material" ->
                LET item == r.items[op.i]
                    material == item.materials[op.j]
                    materialProduct == inv[material.uid]
                    materialSizes == MaterialSizes(materialProduct, material, item)
                IN  [next EXCEPT
                        !.materialUpdates = Append(@,
                            [ref |-> material.uid, sizes |-> materialSizes,
                             totalQuantity |-> TotalQuantity(materialSizes)]),
                        !.stockLogs = Append(@,
                            MaterialLogEntry(p, materialProduct, material, item))]

\* The lists of the callback after a read that passed its checks; nothing
\* is staged in the transaction before the loops have ended.
Staged(p, t, inv) ==
    LET r == req[p]
        op == Plan(r)[t.step]
        next == [t EXCEPT !.step = @ + 1, !.reads = @ \cup {ReadKey(r, op)}]
    IN  CASE op.kind = "customer" -> next
          [] op.kind = "product" ->
                LET item == r.items[op.i]
                    updatedSizes == UpdatedSizes(inv[item.productId], item)
                IN  [next EXCEPT !.productUpdates = Append(@,
                        [ref |-> item.productId, sizes |-> updatedSizes,
                         totalQuantity |-> TotalQuantity(updatedSizes)])]
          [] op.kind = "material" ->
                LET item == r.items[op.i]
                    material == item.materials[op.j]
                    materialProduct == inv[material.uid]
                    materialSizes == MaterialSizes(materialProduct, material, item)
                IN  [next EXCEPT
                        !.materialUpdates = Append(@,
                            [ref |-> material.uid, sizes |-> materialSizes,
                             totalQuantity |-> TotalQuantity(materialSizes)]),
                        !.stockLogs = Append(@,
                            MaterialLogEntry(p, materialProduct, material, item))]

\* The taxonomy of the errors.
ErrorKind(e) ==
    CASE e \in {"CustomerNotFound", "ProductNotFound", "SizeNotFound", "MaterialNotFound"}
            -> "NotFound"
      [] e \in {"InsufficientStock", "InsufficientMaterial"} -> "InsufficientStock"
      [] OTHER -> e


(***************************************************************************)
(* The store: writes, and what a write does to the running transactions.   *)
(***************************************************************************)
\* Mutant: ordersCount is not incremented.
CommitWritesNoCount(p, t) ==
    <<[op |-> "setOrder", id |-> p, data |-> OrderData(req[p])]>>
    \o [k \in DOMAIN t.productUpdates |->
            [op |-> "updateProduct", id |-> t.productUpdates[k].ref,
             sizes |-> t.productUpdates[k].sizes,
             totalQuantity |-> t.productUpdates[k].totalQuantity]]
    \o [k \in DOMAIN t.materialUpdates |->
            [op |-> "updateProduct", id |-> t.materialUpdates[k].ref,
             sizes |-> t.materialUpdates[k].sizes,
             totalQuantity |-> t.materialUpdates[k].totalQuantity]]
    \o [k \in DOMAIN t.stockLogs |-> [op |-> "addLog", entry |-> t.stockLogs[k]]]

\* Mutant: every update of an ordered product is logged as well.
CommitWritesLoggingProducts(p, t) ==
    <<[op |-> "setOrder", id |-> p, data |-> OrderData(req[p])]>>
    \o [k \in DOMAIN t.productUpdates |->
            [op |-> "updateProduct", id |-> t.productUpdates[k].ref,
             sizes |-> t.productUpdates[k].sizes,
             totalQuantity |-> t.productUpdates[k].totalQuantity]]
    \o [k \in DOMAIN t.materialUpdates |->
            [op |-> "updateProduct", id |-> t.materialUpdates[k].ref,
             sizes |-> t.materialUpdates[k].sizes,
             totalQuantity |-> t.materialUpdates[k].totalQuantity]]
    \o [k \in DOMAIN t.stockLogs |-> [op |-> "addLog", entry |-> t.stockLogs[k]]]
    \o [k \in DOMAIN t.productUpdates |->
            [op |-> "addLog",
             entry |-> [addedStock |-> 0, totalStockBefore |-> 0, totalStockAfter |-> 0,
                        notes |-> [kind |-> "order", order |-> p],
                        productId |-> t.productUpdates[k].ref,
                        productName |-> "", sizeName |-> ""]]]
    \o (IF req[p].customerId # ""
        THEN <<[op |-> "incrementOrdersCount", id |-> req[p].customerId]>>
        ELSE <<>>)

\* transaction.set(orderRef, orderData); transaction.update(ref, {sizes, totalQuantity})
\* for productUpdates, then for materialUpdates; transaction.set(stockLogs.doc(), entry);
\* transaction.update(customerRef, {ordersCount: increment(1)})
CommitWrites(p, t) ==
    <<[op |-> "setOrder", id |-> p, data |-> OrderData(req[p])]>>
    \o [k \in DOMAIN t.productUpdates |->
            [op |-> "updateProduct", id |-> t.productUpdates[k].ref,
             sizes |-> t.productUpdates[k].sizes,
             totalQuantity |-> t.productUpdates[k].totalQuantity]]
    \o [k \in DOMAIN t.materialUpdates |->
            [op |-> "updateProduct", id |-> t.materialUpdates[k].ref,
             sizes |-> t.materialUpdates[k].sizes,
             totalQuantity |-> t.materialUpdates[k].totalQuantity]]
    \o [k \in DOMAIN t.stockLogs |-> [op |-> "addLog", entry |-> t.stockLogs[k]]]
    \o (IF req[p].customerId # ""
        THEN <<[op |-> "incrementOrdersCount", id |-> req[p].customerId]>>
        ELSE <<>>)

\* Mutant: the product updates staged so far are written although the attempt fails.
AbortedWritesStaged(p, t) ==
    [k \in DOMAIN t.productUpdates |->
        [op |-> "updateProduct", id |-> t.productUpdates[k].ref,
         sizes |-> t.productUpdates[k].sizes,
         totalQuantity |-> t.productUpdates[k].totalQuantity]]

\* Mutant: the order document is written although the attempt fails.
AbortedWritesOrder(p, t) == <<[op |-> "setOrder", id |-> p, data |-> OrderData(req[p])]>>

\* An attempt that is refused at commit, or whose body throws, is rolled back.
AbortedWrites(p, t) == <<>>

\* Mutant: the log entry of an order takes the place of the entries before it.
ApplyWriteReplacingLogs(s, w) ==
    CASE w.op = "setOrder" ->
            [s EXCEPT !.orders[w.id] = w.data]
      [] w.op = "updateProduct" ->
            [s EXCEPT !.inventory[w.id] =
                [@ EXCEPT !.sizes = w.sizes, !.totalQuantity = <<w.totalQuantity>>]]
      [] w.op = "addLog" ->
            [s EXCEPT !.stockLogs = <<w.entry>>]
      [] w.op = "incrementOrdersCount" ->
            [s EXCEPT !.customers[w.id] = [@ EXCEPT !.ordersCount = @ + 1]]

\* transaction.set(orderRef, ...), transaction.update(ref, {sizes, totalQuantity}),
\* transaction.set(stockLogs.doc(), entry), FieldValue.increment(1)
ApplyWrite(s, w) ==
    CASE w.op = "setOrder" ->
            [s EXCEPT !.orders[w.id] = w.data]
      [] w.op = "updateProduct" ->
            [s EXCEPT !.inventory[w.id] =
                [@ EXCEPT !.sizes = w.sizes, !.totalQuantity = <<w.totalQuantity>>]]
      [] w.op = "addLog" ->
            [s EXCEPT !.stockLogs = Append(@, w.entry)]
      [] w.op = "incrementOrdersCount" ->
            [s EXCEPT !.customers[w.id] = [@ EXCEPT !.ordersCount = @ + 1]]

RECURSIVE ApplyWrites(_, _)
ApplyWrites(s, ws) ==
    IF ws = <<>> THEN s ELSE ApplyWrites(ApplyWrite(s, Head(ws)), Tail(ws))

\* The documents a list of writes touches, as a transaction reads them.
WrittenKeys(ws) ==
    {<<"inventory", ws[k].id>> : k \in {n \in DOMAIN ws : ws[n].op = "updateProduct"}}
    \cup {<<"customers", ws[k].id>> :
            k \in {n \in DOMAIN ws : ws[n].op = "incrementOrdersCount"}}

\* The history of one call: every document its writes touched.
RECURSIVE WriteNames(_, _)
WriteNames(ws, nlogs) ==
    IF ws = <<>> THEN {}
    ELSE LET w == Head(ws)
         IN  CASE w.op = "setOrder" -> {<<"orders", "">>} \cup WriteNames(Tail(ws), nlogs)
               [] w.op = "updateProduct" ->
                    {<<"inventory", w.id>>} \cup WriteNames(Tail(ws), nlogs)
               [] w.op = "addLog" ->
                    {<<"stockLogs", ToString(nlogs + 1)>>}
                        \cup WriteNames(Tail(ws), nlogs + 1)
               [] w.op = "incrementOrdersCount" ->
                    {<<"customers", w.id>>} \cup WriteNames(Tail(ws), nlogs)

\* A write to a document makes every running attempt that has read it fail at commit.
Invalidate(txs, keys, writer) ==
    [q \in Orders |->
        IF q # writer /\ pc[q] = "tx" /\ txs[q].reads \cap keys # {}
        THEN [txs[q] EXCEPT !.stale = TRUE]
        ELSE txs[q]]

StoreRecord ==
    [inventory |-> inventory, customers |-> customers,
     orders |-> orders, stockLogs |-> stockLogs]

SetStore(s) ==
    /\ inventory' = s.inventory
    /\ customers' = s.customers
    /\ orders' = s.orders
    /\ stockLogs' = s.stockLogs

adjustVars == <<areq, apc, asnap, aresult>>

(***************************************************************************)
(* POST /orders                                                            *)
(***************************************************************************)
\* The handler up to runTransaction: the validation of the body.
OrderStart(p) ==
    /\ pc[p] = "start"
    /\ IF RequestRejected(req[p])
       THEN /\ pc' = [pc EXCEPT ![p] = "done"]
            /\ result' = [result EXCEPT ![p] = "ValidationError"]
            /\ tx' = tx
       ELSE /\ pc' = [pc EXCEPT ![p] = "tx"]
            /\ tx' = [tx EXCEPT ![p] = FreshTx(1)]
            /\ result' = result
    /\ UNCHANGED <<store, req, printed, applied, adjustVars, reorderVars, productVars>>

\* One transaction.get of the body and the checks that follow it.
TxRead(p) ==
    /\ pc[p] = "tx"
    /\ tx[p].step <= Len(Plan(req[p]))
    /\ LET e == ReadError(p, tx[p], inventory, customers)
       IN  IF e # ""
           THEN /\ SetStore(ApplyWrites(StoreRecord, AbortedWrites(p, tx[p])))
                /\ applied' = [applied EXCEPT ![p] =
                        @ \cup WriteNames(AbortedWrites(p, tx[p]), 0)]
                /\ pc' = [pc EXCEPT ![p] = "done"]
                /\ result' = [result EXCEPT ![p] = e]
                /\ tx' = [tx EXCEPT ![p] = [NoTx EXCEPT !.attempt = tx[p].attempt]]
           ELSE /\ UNCHANGED <<store, applied>>
                /\ tx' = [tx EXCEPT ![p] = Staged(p, tx[p], inventory)]
                /\ UNCHANGED <<pc, result>>
    /\ UNCHANGED <<req, printed, adjustVars, reorderVars, productVars>>

\* The end of the body: the staged writes, and the commit of the attempt.
TxCommit(p) ==
    /\ pc[p] = "tx"
    /\ tx[p].step > Len(Plan(req[p]))
    /\ IF tx[p].stale
       THEN /\ SetStore(ApplyWrites(StoreRecord, AbortedWrites(p, tx[p])))
            /\ applied' = [applied EXCEPT ![p] =
                    @ \cup WriteNames(AbortedWrites(p, tx[p]), 0)]
            /\ IF tx[p].attempt < MaxAttempts
               THEN /\ tx' = [tx EXCEPT ![p] = RetryTx(tx[p])]
                    /\ UNCHANGED <<pc, result>>
               ELSE /\ tx' = [tx EXCEPT ![p] = [NoTx EXCEPT !.attempt = tx[p].attempt]]
                    /\ pc' = [pc EXCEPT ![p] = "done"]
                    /\ result' = [result EXCEPT ![p] = "Conflict"]
       ELSE LET ws == CommitWrites(p, tx[p])
            IN  /\ SetStore(ApplyWrites(StoreRecord, ws))
                /\ applied' = [applied EXCEPT ![p] = @ \cup WriteNames(ws, 0)]
                /\ tx' = [Invalidate(tx, WrittenKeys(ws), p) EXCEPT
                            ![p] = [NoTx EXCEPT !.attempt = tx[p].attempt]]
                /\ pc' = [pc EXCEPT ![p] = "committed"]
                /\ result' = result
    /\ UNCHANGED <<req, printed, adjustVars, reorderVars, productVars>>

\* Mutant: the success response is sent without the call of printOrder.
OrderRespondWithoutPrint(p) ==
    /\ pc[p] = "committed"
    /\ pc' = [pc EXCEPT ![p] = "done"]
    /\ result' = [result EXCEPT ![p] = "ok"]
    /\ UNCHANGED <<store, req, tx, printed, applied, adjustVars, reorderVars, productVars>>

\* printOrder(orderData, orderRef.id) opens the connection to the printer and
\* returns; res.json({success: true, orderId})
OrderRespond(p) ==
    /\ pc[p] = "committed"
    /\ printed' = [printed EXCEPT ![p] = "opening"]
    /\ pc' = [pc EXCEPT ![p] = "done"]
    /\ result' = [result EXCEPT ![p] = "ok"]
    /\ UNCHANGED <<store, req, tx, applied, adjustVars, reorderVars, productVars>>

\* Mutant: the error of the printer is answered to the caller of the order.
PrintOutcomeSurfaced(p, err) ==
    [printed |-> IF err THEN "failed" ELSE "printed",
     result |-> IF err THEN "PrintError" ELSE result[p]]

\* device.open((err) => { if (err) { console.error(...); return; } printer...close() })
PrintOutcome(p, err) ==
    [printed |-> IF err THEN "failed" ELSE "printed", result |-> result[p]]

\* The callback of device.open: the printer answered, or the connection failed.
PrintCallback(p) ==
    /\ printed[p] = "opening"
    /\ \E err \in BOOLEAN :
          /\ printed' = [printed EXCEPT ![p] = PrintOutcome(p, err).printed]
          /\ result' = [result EXCEPT ![p] = PrintOutcome(p, err).result]
    /\ UNCHANGED <<store, req, pc, tx, applied, adjustVars, reorderVars, productVars>>


(***************************************************************************)
(* PATCH /products/:id/stock                                               *)
(***************************************************************************)
\* Mutant: the cost of a material is floored as it is when a product is saved.
AdjustedSizesWithFloor(productData, sizeName, quantityDelta) ==
    [k \in DOMAIN productData.sizes |->
        LET size == productData.sizes[k]
            prodCost == SumSeq([m \in DOMAIN size.materials |->
                            MaterialCost(size.materials[m])])
        IN  IF size.name = sizeName
            THEN [size EXCEPT !.quantity = @ + quantityDelta,
                              !.productionCost = prodCost,
                              !.profit = size.price - prodCost]
            ELSE size]

\* productData.sizes.map(size => size.name === sizeName ? {...} : size)
AdjustedSizes(productData, sizeName, quantityDelta) ==
    [k \in DOMAIN productData.sizes |->
        LET size == productData.sizes[k]
            prodCost == SumSeq([m \in DOMAIN size.materials |->
                            size.materials[m].cost * size.materials[m].quantity])
        IN  IF size.name = sizeName
            THEN [size EXCEPT !.quantity = @ + quantityDelta,
                              !.productionCost = prodCost,
                              !.profit = size.price - prodCost]
            ELSE size]

\* Mutant: the check of the new quantity is missing.
AdjustNegativeNever(productData, sizeName, quantityDelta) == FALSE

\* if (newQuantity < 0) throw
AdjustNegative(productData, sizeName, quantityDelta) ==
    \E k \in DOMAIN productData.sizes :
        /\ productData.sizes[k].name = sizeName
        /\ productData.sizes[k].quantity + quantityDelta < 0

AdjustSizeFound(productData, sizeName) ==
    \E k \in DOMAIN productData.sizes : productData.sizes[k].name = sizeName

QuantityOf(sizes, sizeName) ==
    IF \E k \in DOMAIN sizes : sizes[k].name = sizeName
    THEN sizes[CHOOSE k \in DOMAIN sizes :
                  /\ sizes[k].name = sizeName
                  /\ \A n \in DOMAIN sizes : sizes[n].name = sizeName => k <= n].quantity
    ELSE 0

AdjustLogEntry(a, productData, updatedSizes) ==
    [addedStock |-> areq[a].quantityDelta,
     totalStockBefore |-> QuantityOf(productData.sizes, areq[a].sizeName),
     totalStockAfter |-> QuantityOf(updatedSizes, areq[a].sizeName),
     notes |-> [kind |-> "manual", order |-> 0],
     productId |-> areq[a].id,
     productName |-> productData.name,
     sizeName |-> areq[a].sizeName]

NoSnap == [productData |-> NoDoc, updatedSizes |-> <<>>]

orderVars == <<req, pc, tx, result, printed, applied>>

\* productRef.get() and the computation of updatedSizes
AdjustRead(a) ==
    /\ apc[a] = "start"
    /\ LET r == areq[a]
           productData == inventory[r.id]
       IN  IF r.sizeName = ""
           THEN /\ apc' = [apc EXCEPT ![a] = "done"]
                /\ aresult' = [aresult EXCEPT ![a] = "ValidationError"]
                /\ asnap' = asnap
           ELSE IF ~productData.exists
           THEN /\ apc' = [apc EXCEPT ![a] = "done"]
                /\ aresult' = [aresult EXCEPT ![a] = "ProductNotFound"]
                /\ asnap' = asnap
           ELSE IF AdjustNegative(productData, r.sizeName, r.quantityDelta)
           THEN /\ apc' = [apc EXCEPT ![a] = "done"]
                /\ aresult' = [aresult EXCEPT ![a] = "NegativeStock"]
                /\ asnap' = asnap
           ELSE IF ~AdjustSizeFound(productData, r.sizeName)
           THEN /\ apc' = [apc EXCEPT ![a] = "done"]
                /\ aresult' = [aresult EXCEPT ![a] = "SizeNotFound"]
                /\ asnap' = asnap
           ELSE /\ apc' = [apc EXCEPT ![a] = "computed"]
                /\ asnap' = [asnap EXCEPT ![a] =
                        [productData |-> productData,
                         updatedSizes |->
                            AdjustedSizes(productData, r.sizeName, r.quantityDelta)]]
                /\ aresult' = aresult
    /\ UNCHANGED <<store, areq, orderVars, reorderVars, productVars>>

\* await productRef.update({ sizes: updatedSizes })
AdjustWrite(a) ==
    /\ apc[a] = "computed"
    /\ inventory' = [inventory EXCEPT ![areq[a].id].sizes = asnap[a].updatedSizes]
    /\ tx' = Invalidate(tx, {<<"inventory", areq[a].id>>}, 0)
    /\ apc' = [apc EXCEPT ![a] = "written"]
    /\ UNCHANGED <<customers, orders, stockLogs, req, pc, result, printed, applied,
                   areq, asnap, aresult, reorderVars, productVars>>

\* await db.collection("stockLogs").doc().set(logEntry); res.json(...)
AdjustLog(a) ==
    /\ apc[a] = "written"
    /\ stockLogs' = Append(stockLogs,
            AdjustLogEntry(a, asnap[a].productData, asnap[a].updatedSizes))
    /\ apc' = [apc EXCEPT ![a] = "done"]
    /\ aresult' = [aresult EXCEPT ![a] = "ok"]
    /\ UNCHANGED <<inventory, customers, orders, areq, asnap, orderVars, reorderVars, productVars>>

(***************************************************************************)
(* PATCH /categories/positions                                             *)
(***************************************************************************)
\* !categories || !Array.isArray(categories) || categories.length === 0, and
\* for each entry !cat.id || typeof cat.position !== "number"
ReorderRejected(r) ==
    \/ ~r.hasList
    \/ r.list = <<>>
    \/ \E k \in DOMAIN r.list : r.list[k].id = "" \/ ~r.list[k].numeric

\* snapshot.docs.map(doc => ({ id: doc.id, ...doc.data() }))
ExistingCategories(cats) ==
    [ids |-> SelectSeq(CategoryIds, LAMBDA id : cats[id].exists), data |-> cats]

NoListing ==
    [ids |-> <<>>, data |-> [id \in {CategoryIds[k] : k \in DOMAIN CategoryIds} |-> NoDoc]]

NoCtx == [attempt |-> 0, step |-> 0, reads |-> {}, stale |-> FALSE, writes |-> <<>>]

FreshCtx(n) == [NoCtx EXCEPT !.attempt = n, !.step = 1]

\* transaction.get(categoryRef): the client refuses a read once a write is
\* staged in the transaction; then the check of categorySnap.exists.
ReorderReadError(t, cat, cats) ==
    IF t.writes # <<>> THEN "ReadAfterWrite"
    ELSE IF ~cats[cat.id].exists THEN "CategoryNotFound"
    ELSE ""

\* transaction.set(categoryRef, { ...currentData, position }, { merge: true })
PositionWrite(id, currentData, position) ==
    [id |-> id, data |-> [exists |-> TRUE, name |-> currentData.name, position |-> position]]

\* The categories of the listing that the request does not name get categories.length.
FallbackWrites(r, listing) ==
    LET omitted == SelectSeq(listing.ids,
                        LAMBDA id : \A k \in DOMAIN r.list : r.list[k].id # id)
    IN  [k \in DOMAIN omitted |->
            PositionWrite(omitted[k], listing.data[omitted[k]], Len(r.list))]

RECURSIVE SetCategories(_, _)
SetCategories(cats, ws) ==
    IF ws = <<>> THEN cats
    ELSE SetCategories([cats EXCEPT ![Head(ws).id] = Head(ws).data], Tail(ws))

InvalidateReorders(txs, ids, writer) ==
    [q \in Reorders |->
        IF q # writer /\ cpc[q] = "tx" /\ txs[q].reads \cap ids # {}
        THEN [txs[q] EXCEPT !.stale = TRUE]
        ELSE txs[q]]

otherVars == <<store, orderVars, adjustVars, productVars>>

\* The validation of the body and the listing of the collection.
ReorderStart(c) ==
    /\ cpc[c] = "start"
    /\ IF ReorderRejected(creq[c])
       THEN /\ cpc' = [cpc EXCEPT ![c] = "done"]
            /\ cresult' = [cresult EXCEPT ![c] = "ValidationError"]
            /\ UNCHANGED <<csnap, ctx>>
       ELSE /\ csnap' = [csnap EXCEPT ![c] = ExistingCategories(categories)]
            /\ cpc' = [cpc EXCEPT ![c] = "tx"]
            /\ ctx' = [ctx EXCEPT ![c] = FreshCtx(1)]
            /\ cresult' = cresult
    /\ UNCHANGED <<categories, creq, renameVars, otherVars>>

\* One turn of the loop over the request: transaction.get, then transaction.set.
ReorderRead(c) ==
    /\ cpc[c] = "tx"
    /\ ctx[c].step <= Len(creq[c].list)
    /\ LET cat == creq[c].list[ctx[c].step]
           e == ReorderReadError(ctx[c], cat, categories)
       IN  IF e # ""
           THEN /\ cpc' = [cpc EXCEPT ![c] = "done"]
                /\ cresult' = [cresult EXCEPT ![c] = e]
                /\ ctx' = [ctx EXCEPT ![c] = [NoCtx EXCEPT !.attempt = ctx[c].attempt]]
           ELSE /\ ctx' = [ctx EXCEPT ![c] =
                        [@ EXCEPT !.step = @ + 1,
                                  !.reads = @ \cup {cat.id},
                                  !.writes = Append(@,
                                      PositionWrite(cat.id, categories[cat.id], cat.position))]]
                /\ UNCHANGED <<cpc, cresult>>
    /\ UNCHANGED <<categories, creq, csnap, renameVars, otherVars>>

\* The loop over existingCategories, the commit of the attempt and the response.
ReorderCommit(c) ==
    /\ cpc[c] = "tx"
    /\ ctx[c].step > Len(creq[c].list)
    /\ IF ctx[c].stale
       THEN /\ categories' = categories
            /\ IF ctx[c].attempt < MaxAttempts
               THEN /\ ctx' = [ctx EXCEPT ![c] = FreshCtx(ctx[c].attempt + 1)]
                    /\ UNCHANGED <<cpc, cresult>>
               ELSE /\ ctx' = [ctx EXCEPT ![c] = [NoCtx EXCEPT !.attempt = ctx[c].attempt]]
                    /\ cpc' = [cpc EXCEPT ![c] = "done"]
                    /\ cresult' = [cresult EXCEPT ![c] = "Conflict"]
       ELSE LET ws == ctx[c].writes \o FallbackWrites(creq[c], csnap[c])
            IN  /\ categories' = SetCategories(categories, ws)
                /\ ctx' = [InvalidateReorders(ctx, {ws[k].id : k \in DOMAIN ws}, c) EXCEPT
                             ![c] = [NoCtx EXCEPT !.attempt = ctx[c].attempt]]
                /\ cpc' = [cpc EXCEPT ![c] = "done"]
                /\ cresult' = [cresult EXCEPT ![c] = "ok"]
    /\ UNCHANGED <<creq, csnap, renameVars, otherVars>>

ReorderStep == \E c \in Reorders : ReorderStart(c) \/ ReorderRead(c) \/ ReorderCommit(c)

(***************************************************************************)
(* PATCH /categories/:id                                                   *)
(***************************************************************************)
\* categoryRef.update({ name })
Renamed(cats, id, name) == [cats EXCEPT ![id].name = name]

\* if (!name) 400; categoryRef.get(); if (!categorySnap.exists) 404
RenameRead ==
    /\ rpc = "start"
    /\ IF rreq.name = ""
       THEN rpc' = "done" /\ rresult' = "ValidationError"
       ELSE IF ~categories[rreq.id].exists
       THEN rpc' = "done" /\ rresult' = "NotFound"
       ELSE rpc' = "found" /\ rresult' = rresult
    /\ UNCHANGED <<categories, creq, cpc, csnap, ctx, cresult, rreq, otherVars>>

\* await categoryRef.update({ name }); res.json({ success: true, id, name })
RenameWrite ==
    /\ rpc = "found"
    /\ categories' = Renamed(categories, rreq.id, rreq.name)
    /\ ctx' = InvalidateReorders(ctx, {rreq.id}, 0)
    /\ rpc' = "done"
    /\ rresult' = "ok"
    /\ UNCHANGED <<creq, cpc, csnap, cresult, rreq, otherVars>>

RenameStep == RenameRead \/ RenameWrite

(***************************************************************************)
(* POST /products and PUT /products/:id                                    *)
(***************************************************************************)
materialCategoryId == "bsOZn7qdIizNleZ41Xs2"
toppingCategoryId == "NlMwnKfHw8PgUFDAFxlB"

\* !name, !categoryId, !sizes || sizes.length === 0, and no materials on the
\* sizes of a product of the categories of the materials and the toppings
ProductRejected(r) ==
    \/ r.name = ""
    \/ r.categoryId = ""
    \/ ~r.hasSizes
    \/ r.sizes = <<>>
    \/ /\ r.categoryId \in {materialCategoryId, toppingCategoryId}
       /\ \E k \in DOMAIN r.sizes : r.sizes[k].materials # <<>>

\* sizes.map(size => ({ ...size, productionCost, profit }))
ProcessedSizes(sizes) == [k \in DOMAIN sizes |-> ProcessedSize(sizes[k])]

\* db.collection("inventory").add(newProduct): the document gets a new id.
NewProductId == CHOOSE id \in ProductIds : ~inventory[id].exists

productFrame == <<customers, orders, stockLogs, req, pc, result, printed, applied,
                  adjustVars, reorderVars>>

\* POST /products
CreateProduct ==
    /\ ppc = "start"
    /\ preq.kind = "create"
    /\ \E id \in ProductIds : ~inventory[id].exists
    /\ IF ProductRejected(preq)
       THEN /\ presult' = "ValidationError"
            /\ UNCHANGED <<inventory, tx>>
       ELSE /\ inventory' = [inventory EXCEPT ![NewProductId] =
                    [exists |-> TRUE, name |-> preq.name,
                     sizes |-> ProcessedSizes(preq.sizes), totalQuantity |-> <<>>]]
            /\ tx' = Invalidate(tx, {<<"inventory", NewProductId>>}, 0)
            /\ presult' = "ok"
    /\ ppc' = "done"
    /\ UNCHANGED <<preq, psizes, productFrame>>

\* PUT /products/:id up to productRef.get()
UpdateProductRead ==
    /\ ppc = "start"
    /\ preq.kind = "update"
    /\ IF ProductRejected(preq)
       THEN /\ ppc' = "done"
            /\ presult' = "ValidationError"
            /\ psizes' = psizes
       ELSE IF ~inventory[preq.id].exists
       THEN /\ ppc' = "done"
            /\ presult' = "ProductNotFound"
            /\ psizes' = psizes
       ELSE /\ ppc' = "read"
            /\ psizes' = ProcessedSizes(preq.sizes)
            /\ presult' = presult
    /\ UNCHANGED <<inventory, tx, preq, productFrame>>

\* await productRef.set(updatedProduct, { merge: true }); res.json(...)
UpdateProductWrite ==
    /\ ppc = "read"
    /\ inventory' = [inventory EXCEPT ![preq.id] =
            [@ EXCEPT !.name = preq.name, !.sizes = psizes]]
    /\ tx' = Invalidate(tx, {<<"inventory", preq.id>>}, 0)
    /\ ppc' = "done"
    /\ presult' = "ok"
    /\ UNCHANGED <<preq, psizes, productFrame>>

ProductStep == CreateProduct \/ UpdateProductRead \/ UpdateProductWrite

(***************************************************************************)
(* The initial store and the requests.                                     *)
(***************************************************************************)
Material(uid, quantity) ==
    [uid |-> uid, name |-> "material", cost |-> 2, quantity |-> quantity]

NewSize(name, price, quantity, materials) ==
    ProcessedSize([name |-> name, price |-> price, quantity |-> quantity,
                   materials |-> materials])

InitInventory ==
    [id \in ProductIds |->
        CASE id = "P" ->
                [exists |-> TRUE, name |-> "elote",
                 sizes |-> <<NewSize("S", 10, 2, <<Material("M", 1)>>),
                             NewSize("L", 12, 1, <<Material("M", 0)>>)>>,
                 totalQuantity |-> <<>>]
          [] id = "M" ->
                [exists |-> TRUE, name |-> "queso",
                 sizes |-> <<NewSize("U", 3, 2, <<>>), NewSize("V", 3, 1, <<>>)>>,
                 totalQuantity |-> <<>>]
          [] OTHER -> NoDoc]

InitCustomers ==
    [id \in CustomerIds |->
        IF id = "C" THEN [exists |-> TRUE, ordersCount |-> 0] ELSE NoDoc]

Request(items, customerId) ==
    [hasItems |-> TRUE, items |-> items, paymentMethod |-> "cash",
     hasTotal |-> TRUE, customerId |-> customerId]

Item(productId, name, quantity, materials) ==
    [productId |-> productId, name |-> name, quantity |-> quantity,
     materials |-> materials]

\* Requests of the concurrent calls: one item for size S of product P.
SharedItems ==
    {Item("P", "S", q, m) :
        q \in {1, 2}, m \in {<<>>, <<Material("M", 1)>>, <<Material("P", 0)>>}}

SharedRequests == {Request(<<it>>, c) : it \in SharedItems, c \in {"", "C"}}

AdjustRequests ==
    {[id |-> t[1], sizeName |-> t[2], quantityDelta |-> d] :
        t \in {<<"P", "S">>, <<"M", "U">>}, d \in {-1, 1}}

\* Requests of a single call: every shape of one item, and pairs of items.
Materials == {Material(uid, q) : uid \in ProductIds, q \in {0, 1, 2}}

SingleItems ==
    {Item(id, n, q, m) : id \in ProductIds, n \in {"S", "L", "U"},
                         q \in {-1, 1, 2}, m \in SeqsUpTo(Materials, 2)}

PairItems ==
    {Item(id, n, q, m) : id \in ProductIds, n \in {"S", "L", "U"}, q \in {1, 2},
                         m \in {<<>>, <<Material("M", 1)>>}}

\* Bodies without items, without paymentMethod and without total.
IncompleteRequests ==
    {[Request(<<>>, "C") EXCEPT !.hasItems = FALSE],
     [Request(<<Item("P", "S", 1, <<>>)>>, "C") EXCEPT !.paymentMethod = ""],
     [Request(<<Item("P", "S", 1, <<>>)>>, "C") EXCEPT !.hasTotal = FALSE]}

SingleRequests ==
    {Request(items, c) :
        items \in {<<>>} \cup {<<it>> : it \in SingleItems}
                  \cup {<<a, b>> : a \in PairItems, b \in PairItems},
        c \in {"", "C", "D"}}
    \cup IncompleteRequests

InitCategories ==
    [id \in {CategoryIds[k] : k \in DOMAIN CategoryIds} |->
        CASE id = "A" -> [exists |-> TRUE, name |-> "elotes", position |-> 0]
          [] id = "B" -> [exists |-> TRUE, name |-> "bebidas", position |-> 1]
          [] id = "C" -> [exists |-> TRUE, name |-> "toppings", position |-> 2]
          [] OTHER -> NoDoc]

ReorderRequest(list) == [hasList |-> TRUE, list |-> list]

Assignment(id, position) == [id |-> id, position |-> position, numeric |-> TRUE]

Assignments == {Assignment(id, n) : id \in {"A", "B", "C", "X"}, n \in 0..2}

\* Requests of one call: every list of at most two assignments, and the
\* bodies that the validation rejects.
ReorderRequests ==
    {ReorderRequest(list) : list \in SeqsUpTo(Assignments, 2)}
    \cup {[hasList |-> FALSE, list |-> <<>>],
          ReorderRequest(<<Assignment("", 0)>>),
          ReorderRequest(<<Assignment("A", 0), [id |-> "B", position |-> 0, numeric |-> FALSE]>>)}

\* Requests of the call that runs beside it.
SecondReorderRequests ==
    {ReorderRequest(<<Assignment("B", 0)>>), ReorderRequest(<<Assignment("A", 2)>>)}

RawSize(name, price, quantity, materials) ==
    [name |-> name, price |-> price, quantity |-> quantity, materials |-> materials]

ProductRequest(kind, id, name, categoryId, sizes) ==
    [kind |-> kind, id |-> id, name |-> name, categoryId |-> categoryId,
     hasSizes |-> TRUE, sizes |-> sizes]

\* Materials of a size: cost 2 or 3, quantity -1, 0 or 3.
SizeMaterials ==
    {[uid |-> "M", name |-> "material", cost |-> c, quantity |-> q] :
        c \in {2, 3}, q \in {-1, 0, 3}}

ProductRequests ==
    {ProductRequest(t[1], t[2], "esquite", "food", <<RawSize("S", 10, 5, m)>>) :
        t \in {<<"create", "">>, <<"update", "P">>, <<"update", "Z">>},
        m \in SeqsUpTo(SizeMaterials, 2)}
    \cup {ProductRequest(kind, "P", "esquite", "food",
                <<RawSize("S", 10, 5, <<m>>), RawSize("L", 12, 0, <<>>)>>) :
            kind \in {"create", "update"}, m \in SizeMaterials}
    \cup {ProductRequest(kind, "P", t[1], t[2], t[3]) :
            kind \in {"create", "update"},
            t \in {<<"", "food", <<RawSize("S", 10, 5, <<>>)>>>>,
                   <<"esquite", "", <<RawSize("S", 10, 5, <<>>)>>>>,
                   <<"esquite", "food", <<>>>>,
                   <<"queso", materialCategoryId, <<RawSize("U", 3, 5, <<>>)>>>>,
                   <<"queso", materialCategoryId,
                     <<RawSize("U", 3, 5, <<[uid |-> "M", name |-> "material",
                                             cost |-> 2, quantity |-> 3]>>)>>>>}}
    \cup {[ProductRequest(kind, "P", "esquite", "food", <<>>) EXCEPT !.hasSizes = FALSE] :
            kind \in {"create", "update"}}

NoProductCall ==
    /\ preq = ProductRequest("create", "", "esquite", "food", <<>>)
    /\ ppc = "idle"

RenameRequest(id, name) == [id |-> id, name |-> name]

NoRename ==
    /\ rreq = RenameRequest("A", "elotes")
    /\ rpc = "idle"
    /\ rresult = "none"

InitDocuments ==
    /\ psizes = <<>>
    /\ presult = "none"
    /\ categories = InitCategories
    /\ csnap = [c \in Reorders |-> NoListing]
    /\ ctx = [c \in Reorders |-> NoCtx]
    /\ cresult = [c \in Reorders |-> "none"]
    /\ inventory = InitInventory
    /\ customers = InitCustomers
    /\ orders = [p \in Orders |-> NoDoc]
    /\ stockLogs = <<>>
    /\ tx = [p \in Orders |-> NoTx]
    /\ result = [p \in Orders |-> "none"]
    /\ printed = [p \in Orders |-> "none"]
    /\ applied = [p \in Orders |-> {}]
    /\ asnap = [a \in Adjusts |-> NoSnap]
    /\ aresult = [a \in Adjusts |-> "none"]

InitCommon ==
    /\ NoRename
    /\ InitDocuments

IdleAdjust == [id |-> "P", sizeName |-> "S", quantityDelta |-> 1]

NoCatalogCalls ==
    /\ NoProductCall
    /\ creq = [c \in Reorders |-> ReorderRequest(<<Assignment("A", 0)>>)]
    /\ cpc = [c \in Reorders |-> "idle"]

\* Concurrent calls: NumOrders orders and one stock adjustment.
Init ==
    /\ InitCommon
    /\ req \in [Orders -> SharedRequests]
    /\ pc = [p \in Orders |-> "start"]
    /\ \E r \in AdjustRequests : areq = [a \in Adjusts |-> IF a = 1 THEN r ELSE IdleAdjust]
    /\ apc = [a \in Adjusts |-> IF a = 1 THEN "start" ELSE "idle"]
    /\ NoCatalogCalls

\* One order call on its own.
InitSingle ==
    /\ InitCommon
    /\ \E r \in SingleRequests : req = [p \in Orders |-> r]
    /\ pc = [p \in Orders |-> IF p = 1 THEN "start" ELSE "idle"]
    /\ areq = [a \in Adjusts |-> IdleAdjust]
    /\ apc = [a \in Adjusts |-> "idle"]
    /\ NoCatalogCalls

\* Requests of the stock adjustments: every shape of the body.
AdjustCallRequests ==
    {[id |-> t[1], sizeName |-> t[2], quantityDelta |-> d] :
        t \in {<<"P", "S">>, <<"P", "L">>, <<"P", "X">>, <<"P", "">>, <<"M", "U">>,
               <<"Z", "S">>},
        d \in {-3, -1, 1}}

AdjustOrderRequests ==
    {Request(<<Item("P", "S", 1, <<>>)>>, ""),
     Request(<<Item("P", "S", 2, <<Material("M", 1)>>)>>, "")}

\* Concurrent stock adjustments, and one order.
InitAdjust ==
    /\ InitCommon
    /\ \E r \in AdjustOrderRequests : req = [p \in Orders |-> r]
    /\ pc = [p \in Orders |-> IF p = 1 THEN "start" ELSE "idle"]
    /\ areq \in [Adjusts -> AdjustCallRequests]
    /\ apc = [a \in Adjusts |-> "start"]
    /\ NoCatalogCalls

\* Concurrent changes of the positions of the categories.
InitReorder ==
    /\ InitCommon
    /\ req = [p \in Orders |-> Request(<<>>, "")]
    /\ pc = [p \in Orders |-> "idle"]
    /\ areq = [a \in Adjusts |-> IdleAdjust]
    /\ apc = [a \in Adjusts |-> "idle"]
    /\ \E r \in ReorderRequests, r2 \in SecondReorderRequests :
          creq = [c \in Reorders |-> IF c = 1 THEN r ELSE r2]
    /\ cpc = [c \in Reorders |-> "start"]
    /\ NoProductCall

\* One creation or update of a product.
InitProducts ==
    /\ InitCommon
    /\ req = [p \in Orders |-> Request(<<>>, "")]
    /\ pc = [p \in Orders |-> "idle"]
    /\ areq = [a \in Adjusts |-> IdleAdjust]
    /\ apc = [a \in Adjusts |-> "idle"]
    /\ creq = [c \in Reorders |-> ReorderRequest(<<Assignment("A", 0)>>)]
    /\ cpc = [c \in Reorders |-> "idle"]
    /\ preq \in ProductRequests
    /\ ppc = "start"

OrderStep ==
    \E p \in Orders :
        OrderStart(p) \/ TxRead(p) \/ TxCommit(p) \/ OrderRespond(p) \/ PrintCallback(p)

AdjustStep == \E a \in Adjusts : AdjustRead(a) \/ AdjustWrite(a) \/ AdjustLog(a)

Next == OrderStep \/ AdjustStep

Spec == Init /\ [][Next]_vars

SpecSingle == InitSingle /\ [][OrderStep]_vars

SpecAdjust == InitAdjust /\ [][Next]_vars

\* Requests of orders that succeed, that fail at a read and that conflict.
LiveRequests ==
    {Request(<<Item("P", "S", 1, <<>>)>>, "C"),
     Request(<<Item("P", "S", 2, <<Material("M", 1)>>)>>, ""),
     Request(<<Item("Z", "S", 1, <<>>)>>, "C"),
     Request(<<Item("P", "L", 2, <<>>)>>, "")}

InitLive ==
    /\ InitCommon
    /\ req \in [Orders -> LiveRequests]
    /\ pc = [p \in Orders |-> "start"]
    /\ \E r \in AdjustRequests : areq = [a \in Adjusts |-> IF a = 1 THEN r ELSE IdleAdjust]
    /\ apc = [a \in Adjusts |-> IF a = 1 THEN "start" ELSE "idle"]
    /\ NoCatalogCalls

\* The handler of a call goes on whenever the store has answered it.
OrderFairness ==
    \A p \in Orders :
        WF_vars(OrderStart(p) \/ TxRead(p) \/ TxCommit(p) \/ OrderRespond(p))

SpecLive == InitLive /\ [][Next]_vars /\ OrderFairness

SpecReorder == InitReorder /\ [][ReorderStep]_vars

SpecProducts == InitProducts /\ [][ProductStep]_vars

\* Names of existing and of missing categories, and a body without a name.
RenameRequests ==
    {RenameRequest(id, name) : id \in {"A", "B", "X"}, name \in {"", "antojitos"}}

\* Two changes of positions beside the change of a name.
InitRename ==
    /\ InitDocuments
    /\ req = [p \in Orders |-> Request(<<>>, "")]
    /\ pc = [p \in Orders |-> "idle"]
    /\ areq = [a \in Adjusts |-> IdleAdjust]
    /\ apc = [a \in Adjusts |-> "idle"]
    /\ creq \in [Reorders -> SecondReorderRequests]
    /\ cpc = [c \in Reorders |-> "start"]
    /\ NoProductCall
    /\ rreq \in RenameRequests
    /\ rpc = "start"
    /\ rresult = "none"

NextRename == ReorderStep \/ RenameStep

SpecRename == InitRename /\ [][NextRename]_vars

\* Requests that change the materials of product P, and that add a product.
CatalogRequests ==
    {ProductRequest("update", "P", "elote", "food",
        <<RawSize("S", 10, 5, <<[uid |-> "M", name |-> "material", cost |-> 3, quantity |-> 3]>>),
          RawSize("L", 12, 1, <<>>)>>),
     ProductRequest("create", "", "esquite", "food", <<RawSize("S", 10, 5, <<>>)>>)}

\* An order of a finished good, one that uses a material and one that the
\* stock of the material does not cover.
CatalogOrderRequests ==
    {Request(<<Item("P", "S", 1, <<>>)>>, ""),
     Request(<<Item("P", "S", 1, <<Material("M", 1)>>)>>, ""),
     Request(<<Item("P", "S", 1, <<Material("M", 2)>>)>>, "")}

\* One call of every operation, side by side.
InitAll ==
    /\ InitCommon
    /\ \E r \in CatalogOrderRequests : req = [p \in Orders |-> r]
    /\ pc = [p \in Orders |-> IF p = 1 THEN "start" ELSE "idle"]
    /\ \E r \in AdjustRequests : areq = [a \in Adjusts |-> IF a = 1 THEN r ELSE IdleAdjust]
    /\ apc = [a \in Adjusts |-> IF a = 1 THEN "start" ELSE "idle"]
    /\ \E r \in SecondReorderRequests : creq = [c \in Reorders |-> r]
    /\ cpc = [c \in Reorders |-> IF c = 1 THEN "start" ELSE "idle"]
    /\ preq \in CatalogRequests
    /\ ppc = "start"

NextAll == Next \/ ReorderStep \/ ProductStep

SpecAll == InitAll /\ [][NextAll]_vars


(***************************************************************************)
(* Properties                                                              *)
(***************************************************************************)
Committed(p) == pc[p] = "committed" \/ (pc[p] = "done" /\ result[p] = "ok")

Failed(p) == pc[p] = "done" /\ result[p] # "ok"

MaterialPairs(r) ==
    {<<i, j>> : i \in DOMAIN r.items, j \in 1..2} \cap
    UNION {{<<i, j>> : j \in DOMAIN r.items[i].materials} : i \in DOMAIN r.items}

\* Every document the writes of an accepted request touch.
ExpectedWrites(r) ==
    {<<"orders", "">>}
    \cup {<<"inventory", r.items[i].productId>> : i \in DOMAIN r.items}
    \cup {<<"inventory", r.items[ij[1]].materials[ij[2]].uid>> : ij \in MaterialPairs(r)}
    \cup {<<"stockLogs", ToString(k)>> : k \in 1..Cardinality(MaterialPairs(r))}
    \cup (IF r.customerId # "" THEN {<<"customers", r.customerId>>} ELSE {})

LogsOfOrder(p) ==
    {k \in DOMAIN stockLogs : stockLogs[k].notes = [kind |-> "order", order |-> p]}

\* C1: in every reachable state, each order call has either written all of
\* its documents (the order, every staged product and material update, every
\* log entry, the ordersCount increment) or none of them; a concurrent
\* attempt reads reachable states only, so it never sees a part of them.
C1_AllOrNothing ==
    \A p \in Orders :
        /\ applied[p] = {} \/ applied[p] = ExpectedWrites(req[p])
        /\ orders[p].exists <=> applied[p] # {}
        /\ Cardinality(LogsOfOrder(p)) =
                IF applied[p] = {} THEN 0 ELSE Cardinality(MaterialPairs(req[p]))
        /\ applied[p] # {} <=> Committed(p)

C1_Witness ==
    \E p, q \in Orders :
        /\ Committed(p)
        /\ req[p].customerId = "C"
        /\ LogsOfOrder(p) # {}
        /\ Failed(q)
        /\ ErrorKind(result[q]) = "InsufficientStock"
        /\ applied[q] = {}

\* C2: every size of every product has a quantity >= 0 in every state of
\* every interleaving of order calls and stock adjustments.
C2_NonNegativeStock ==
    \A id \in ProductIds :
        inventory[id].exists =>
            \A k \in DOMAIN inventory[id].sizes : inventory[id].sizes[k].quantity >= 0

C2_Witness ==
    /\ \E p \in Orders : Committed(p)
    /\ \E a \in Adjusts : apc[a] = "done" /\ aresult[a] = "ok" /\ areq[a].quantityDelta < 0
    /\ \E k \in DOMAIN inventory["P"].sizes : inventory["P"].sizes[k].quantity = 0
    /\ \E k \in DOMAIN inventory["M"].sizes : inventory["M"].sizes[k].quantity = 0

\* C8: ordersCount of every customer is its initial value plus the number of
\* committed order calls that name the customer; failed calls and calls
\* without customerId add nothing, concurrent successes add one each.
C8_OrdersCount ==
    \A c \in CustomerIds :
        customers[c].exists =>
            customers[c].ordersCount =
                InitCustomers[c].ordersCount
                + Cardinality({p \in Orders : Committed(p) /\ req[p].customerId = c})

C8_Witness ==
    /\ customers["C"].ordersCount = 2
    /\ \A p \in Orders : Committed(p) /\ req[p].customerId = "C"
    /\ \E p \in Orders : tx[p].attempt = 2


\* Steps of one call, told by what they do to the call.
CommitStep(p) == pc[p] = "tx" /\ pc'[p] = "committed"

AttemptEnds(p) == pc[p] = "tx" /\ pc'[p] \in {"done", "committed"}

ConflictStep(p) ==
    /\ pc[p] = "tx"
    /\ \/ tx'[p].attempt = tx[p].attempt + 1
       \/ pc'[p] = "done" /\ result'[p] = "Conflict"

HasSize(product, name) == \E k \in DOMAIN product.sizes : product.sizes[k].name = name

\* Item i asks for more than the quantity of the size it names.
Excess(r, inv, i) ==
    /\ inv[r.items[i].productId].exists
    /\ HasSize(inv[r.items[i].productId], r.items[i].name)
    /\ r.items[i].quantity > QuantityOf(inv[r.items[i].productId].sizes, r.items[i].name)

\* A reference that is checked before the stock of item i0 names nothing.
MissingBefore(r, inv, cust, i0) ==
    \/ r.customerId # "" /\ ~cust[r.customerId].exists
    \/ \E i \in 1..(i0 - 1) :
          \/ ~inv[r.items[i].productId].exists
          \/ ~HasSize(inv[r.items[i].productId], r.items[i].name)
          \/ \E j \in DOMAIN r.items[i].materials : ~inv[r.items[i].materials[j].uid].exists
    \/ ~inv[r.items[i0].productId].exists

\* C3 as stated: an order with an item that asks for more than the stock of
\* its size fails with InsufficientStock and changes no document.
C3_ExcessFailsInsufficient ==
    [][\A p \in Orders :
        (AttemptEnds(p) /\ \E i \in DOMAIN req[p].items : Excess(req[p], inventory, i))
        => /\ pc'[p] = "done"
           /\ ErrorKind(result'[p]) = "InsufficientStock"
           /\ UNCHANGED store]_vars

\* C3 amended: such an order fails and changes no document; the error is
\* InsufficientStock unless a reference checked before that item (the
\* customer, an earlier item's product, size or material) is missing, and
\* then it is that check's NotFound.
C3_ExcessFails ==
    [][\A p \in Orders :
        (AttemptEnds(p) /\ \E i \in DOMAIN req[p].items : Excess(req[p], inventory, i))
        => /\ pc'[p] = "done"
           /\ ErrorKind(result'[p]) \in {"InsufficientStock", "NotFound"}
           /\ ErrorKind(result'[p]) = "NotFound" =>
                \E i \in DOMAIN req[p].items :
                    /\ Excess(req[p], inventory, i)
                    /\ MissingBefore(req[p], inventory, customers, i)
           /\ (\A i \in DOMAIN req[p].items : Excess(req[p], inventory, i) =>
                    ~MissingBefore(req[p], inventory, customers, i))
                => ErrorKind(result'[p]) = "InsufficientStock"
           /\ UNCHANGED store]_vars

\* An earlier item was valid and staged, the second item exceeded the stock.
C3_Witness ==
    \E p \in Orders :
        /\ Failed(p)
        /\ result[p] = "InsufficientStock"
        /\ Len(req[p].items) = 2
        /\ ~Excess(req[p], inventory, 1)
        /\ inventory[req[p].items[1].productId].exists
        /\ HasSize(inventory[req[p].items[1].productId], req[p].items[1].name)
        /\ Excess(req[p], inventory, 2)
        /\ applied[p] = {}
        /\ inventory = InitInventory

NoAdjustWritten == \A a \in Adjusts : apc[a] \notin {"written", "done"} \/ aresult[a] \notin {"none", "ok"}

InitialStock == QuantityOf(InitInventory["P"].sizes, "S")

\* C4: concurrent orders of one item each for the same size never succeed
\* for more units in total than the size had.
C4_NoOversell ==
    NoAdjustWritten =>
        SumSeq([p \in Orders |->
                    IF Committed(p) THEN req[p].items[1].quantity ELSE 0]) <= InitialStock

Min(a, b) == IF a <= b THEN a ELSE b

\* C5: when N orders of one unit of the same size have all returned, exactly
\* min(N, q) succeeded, the others failed with InsufficientStock or Conflict
\* and the size's quantity is q - min(N, q).
C5_ExactSuccesses ==
    (/\ NoAdjustWritten
     /\ \A p \in Orders : pc[p] = "done" /\ req[p].items[1].quantity = 1)
    => /\ Cardinality({p \in Orders : result[p] = "ok"}) = Min(NumOrders, InitialStock)
       /\ \A p \in Orders :
            result[p] # "ok" => ErrorKind(result[p]) \in {"InsufficientStock", "Conflict"}
       /\ QuantityOf(inventory["P"].sizes, "S") = InitialStock - Min(NumOrders, InitialStock)

\* The plain orders: positive quantities, and materials that are products
\* other than the ordered ones.
PlainOrder(r) ==
    \A i \in DOMAIN r.items :
        /\ r.items[i].quantity > 0
        /\ \A j \in DOMAIN r.items[i].materials :
             \A k \in DOMAIN r.items : r.items[i].materials[j].uid # r.items[k].productId

\* C6: a successful order lowers every size that its items name by the sum
\* of the quantities of the items that name it, also when two items name the
\* same product (stated for the plain orders).
C6_DeductsSumOfItems ==
    [][\A p \in Orders :
        (CommitStep(p) /\ PlainOrder(req[p])) =>
            \A i \in DOMAIN req[p].items :
                LET id == req[p].items[i].productId
                    n == req[p].items[i].name
                IN  QuantityOf(inventory[id].sizes, n) - QuantityOf(inventory'[id].sizes, n)
                    = SumSeq([k \in DOMAIN req[p].items |->
                                IF req[p].items[k].productId = id /\ req[p].items[k].name = n
                                THEN req[p].items[k].quantity ELSE 0])]_vars

\* The body of the transaction run in one go against the store s.
RECURSIVE RunBody(_, _, _)
RunBody(p, t, s) ==
    IF t.step > Len(Plan(req[p])) THEN t
    ELSE RunBody(p, Staged(p, t, s.inventory), s)

StagedOnce(r, i, j) ==
    LET uid == r.items[i].materials[j].uid
    IN  /\ \A k \in DOMAIN r.items : r.items[k].productId # uid
        /\ \A ij \in MaterialPairs(r) :
             r.items[ij[1]].materials[ij[2]].uid = uid => ij = <<i, j>>

\* C9: a successful order lowers the first size of each material product by
\* material.quantity * item.quantity and leaves its other sizes unchanged
\* (stated for the plain orders that stage the material product once).
C9_OnlyFirstSizeOfMaterial ==
    [][\A p \in Orders :
        (CommitStep(p) /\ PlainOrder(req[p])) =>
            \A ij \in MaterialPairs(req[p]) :
                StagedOnce(req[p], ij[1], ij[2]) =>
                    LET item == req[p].items[ij[1]]
                        material == item.materials[ij[2]]
                        before == inventory[material.uid].sizes
                        after == inventory'[material.uid].sizes
                    IN  /\ after[1].quantity =
                                before[1].quantity - material.quantity * item.quantity
                        /\ \A k \in 2..Len(before) : after[k].quantity = before[k].quantity]_vars

\* C10: the check of a material fails with InsufficientStock exactly when
\* the first size of the material product would become negative, and then no
\* document is changed (stated for the plain orders).
C10_MaterialFailsOnFirstSize ==
    [][\A p \in Orders :
        (/\ pc[p] = "tx"
         /\ PlainOrder(req[p])
         /\ tx'[p] # tx[p]
         /\ tx[p].step <= Len(Plan(req[p]))
         /\ Plan(req[p])[tx[p].step].kind = "material"
         /\ inventory[ReadKey(req[p], Plan(req[p])[tx[p].step])[2]].exists)
        => LET op == Plan(req[p])[tx[p].step]
               item == req[p].items[op.i]
               material == item.materials[op.j]
               first == inventory[material.uid].sizes[1].quantity
           IN  /\ (pc'[p] = "done" /\ ErrorKind(result'[p]) = "InsufficientStock")
                    <=> first - material.quantity * item.quantity < 0
               /\ pc'[p] = "done" => UNCHANGED store]_vars

(***************************************************************************)
(* Missing references                                                      *)
(***************************************************************************)
\* What check k of the body finds on the documents inv and cust.
CheckOutcome(r, inv, cust, k) ==
    LET op == Plan(r)[k]
    IN  CASE op.kind = "customer" ->
                IF cust[r.customerId].exists THEN "" ELSE "NotFound"
          [] op.kind = "product" ->
                IF \/ ~inv[r.items[op.i].productId].exists
                   \/ ~HasSize(inv[r.items[op.i].productId], r.items[op.i].name)
                THEN "NotFound"
                ELSE IF Excess(r, inv, op.i) THEN "InsufficientStock" ELSE ""
          [] op.kind = "material" ->
                LET material == r.items[op.i].materials[op.j]
                    needed == material.quantity * r.items[op.i].quantity
                IN  IF ~inv[material.uid].exists THEN "NotFound"
                    ELSE IF \E n \in DOMAIN inv[material.uid].sizes :
                                inv[material.uid].sizes[n].quantity < needed
                         THEN "InsufficientStock"
                    ELSE ""

\* The request names a customer, product, size or material product that is not there.
MissingReference(r, inv, cust) ==
    \E k \in DOMAIN Plan(r) : CheckOutcome(r, inv, cust, k) = "NotFound"

FirstFailure(r, inv, cust) ==
    LET failing == {k \in DOMAIN Plan(r) : CheckOutcome(r, inv, cust, k) # ""}
    IN  CheckOutcome(r, inv, cust, CHOOSE k \in failing : \A n \in failing : k <= n)

\* C11 as stated: an order with a missing customer, product, size or
\* material product fails with NotFound and writes nothing, wherever in
\* the items the missing reference is.
C11_MissingFailsNotFound ==
    [][\A p \in Orders :
        (AttemptEnds(p) /\ MissingReference(req[p], inventory, customers))
        => /\ pc'[p] = "done"
           /\ ErrorKind(result'[p]) = "NotFound"
           /\ UNCHANGED store]_vars

\* C11 amended: such an order fails and writes nothing; the error is that of
\* the first check of the body that fails, NotFound unless a stock check
\* that comes before the missing reference fails with InsufficientStock.
C11_MissingFails ==
    [][\A p \in Orders :
        (AttemptEnds(p) /\ MissingReference(req[p], inventory, customers))
        => /\ pc'[p] = "done"
           /\ ErrorKind(result'[p]) = FirstFailure(req[p], inventory, customers)
           /\ UNCHANGED store]_vars

\* The first item was valid and staged with its material, the second names
\* a product that is not there.
C11_Witness ==
    \E p \in Orders :
        /\ Failed(p)
        /\ result[p] = "ProductNotFound"
        /\ Len(req[p].items) = 2
        /\ CheckOutcome(req[p], inventory, customers, 1) = ""
        /\ req[p].items[1].materials # <<>>
        /\ ~inventory[req[p].items[2].productId].exists
        /\ applied[p] = {}
        /\ store = <<InitInventory, InitCustomers, [q \in Orders |-> NoDoc], <<>>>>

(***************************************************************************)
(* The receipt                                                             *)
(***************************************************************************)
\* C12: when the print of the receipt fails after the commit of an order,
\* the step changes no document, the order, its deductions, its log entries
\* and the ordersCount increment stay written, and the answer of the call
\* is the success response, then and ever after.
C12_PrintFailureKeepsOrder ==
    [][\A p \in Orders :
        /\ (printed[p] = "opening" /\ printed'[p] = "failed")
            => /\ UNCHANGED store
               /\ orders'[p].exists
               /\ applied'[p] = ExpectedWrites(req[p])
               /\ Cardinality(LogsOfOrder(p)') = Cardinality(MaterialPairs(req[p]))
               /\ pc'[p] = "done"
               /\ result'[p] = "ok"
        /\ printed[p] = "failed" => (orders'[p] = orders[p] /\ result'[p] = "ok")]_vars

C12_Witness ==
    \E p \in Orders :
        /\ printed[p] = "failed"
        /\ result[p] = "ok"
        /\ orders[p].exists
        /\ LogsOfOrder(p) # {}
        /\ req[p].customerId = "C"
        /\ customers["C"].ordersCount >= 1
        /\ QuantityOf(inventory["P"].sizes, "S") < InitialStock

(***************************************************************************)
(* Stock adjustments                                                       *)
(***************************************************************************)
ManualLogs == {k \in DOMAIN stockLogs : stockLogs[k].notes.kind = "manual"}

\* C13: a stock adjustment whose delta would make the quantity of the named
\* size negative fails, leaves the product document unchanged and adds no
\* log entry, then and afterwards.
C13_NegativeAdjustFails ==
    [][\A a \in Adjusts :
        /\ (/\ apc[a] = "start"
            /\ apc'[a] # "start"
            /\ inventory[areq[a].id].exists
            /\ HasSize(inventory[areq[a].id], areq[a].sizeName)
            /\ QuantityOf(inventory[areq[a].id].sizes, areq[a].sizeName)
                 + areq[a].quantityDelta < 0)
            => /\ apc'[a] = "done"
               /\ aresult'[a] = "NegativeStock"
               /\ UNCHANGED store
        /\ (apc[a] = "done" /\ aresult[a] = "NegativeStock") => UNCHANGED <<apc[a], aresult[a]>>]_vars

\* Stock 2 and delta -3: the call has failed and nothing was written.
C13_Witness ==
    \E a \in Adjusts :
        /\ apc[a] = "done"
        /\ aresult[a] = "NegativeStock"
        /\ areq[a].quantityDelta = -3
        /\ QuantityOf(inventory[areq[a].id].sizes, areq[a].sizeName) = 2
        /\ store = <<InitInventory, InitCustomers, [q \in Orders |-> NoDoc], <<>>>>

\* C14: every stock adjustment that changes the quantity of a size adds one
\* log entry for the product and the size, whose totalStockBefore is the
\* quantity just before the change, whose totalStockAfter is the quantity
\* that the change stored and whose addedStock is the delta; when the calls
\* have completed, there is one such entry for each change.
C14_AdjustLogsChange ==
    [][\A a \in Adjusts :
        LET id == areq[a].id
            n == areq[a].sizeName
        IN  /\ (apc[a] = "computed" /\ apc'[a] = "written")
                => /\ QuantityOf(asnap[a].productData.sizes, n) = QuantityOf(inventory[id].sizes, n)
                   /\ QuantityOf(asnap[a].updatedSizes, n) = QuantityOf(inventory'[id].sizes, n)
            /\ (apc[a] = "written" /\ apc'[a] = "done")
                => /\ Len(stockLogs') = Len(stockLogs) + 1
                   /\ LET e == stockLogs'[Len(stockLogs')]
                      IN  /\ e.productId = id
                          /\ e.sizeName = n
                          /\ e.addedStock = areq[a].quantityDelta
                          /\ e.totalStockBefore = QuantityOf(asnap[a].productData.sizes, n)
                          /\ e.totalStockAfter = QuantityOf(asnap[a].updatedSizes, n)
            /\ (\A b \in Adjusts : apc'[b] \in {"idle", "done"})
                => Cardinality(ManualLogs') =
                     Cardinality({b \in Adjusts : apc'[b] = "done" /\ aresult'[b] = "ok"})]_vars

(***************************************************************************)
(* The positions of the categories                                         *)
(***************************************************************************)
ExistingIds(cats) == {id \in DOMAIN cats : cats[id].exists}

ReorderEnds(c) == cpc[c] = "tx" /\ cpc'[c] = "done"

ReorderSucceeds(c) == ReorderEnds(c) /\ cresult'[c] = "ok"

\* C15: after a successful change of the positions, the positions of the
\* existing categories are pairwise distinct and are exactly 0..N-1, N the
\* number of existing categories.
C15_PositionsDense ==
    [][\A c \in Reorders :
        ReorderSucceeds(c) =>
            /\ \A a, b \in ExistingIds(categories') :
                 a # b => categories'[a].position # categories'[b].position
            /\ {categories'[a].position : a \in ExistingIds(categories')}
                 = 0..(Cardinality(ExistingIds(categories')) - 1)]_vars

\* C16: after a successful change of the positions, every category of the
\* request has the position the request gives it and every other existing
\* category has the length of the request; the request [{A,1},{B,0}] on the
\* categories A, B, C succeeds and gives A = 1, B = 0, C = 2.
C16_PositionsAssigned ==
    [][\A c \in Reorders :
        /\ ReorderSucceeds(c) =>
            /\ \A k \in DOMAIN creq[c].list :
                 categories'[creq[c].list[k].id].position = creq[c].list[k].position
            /\ \A a \in ExistingIds(categories') :
                 (\A k \in DOMAIN creq[c].list : creq[c].list[k].id # a)
                    => categories'[a].position = Len(creq[c].list)
        /\ (ReorderEnds(c) /\ creq[c].list = <<Assignment("A", 1), Assignment("B", 0)>>) =>
            /\ cresult'[c] = "ok"
            /\ categories'["A"].position = 1
            /\ categories'["B"].position = 0
            /\ categories'["C"].position = 2]_vars

\* C17: a change of the positions that names a category that does not
\* exist fails with NotFound and changes no position, wherever in the
\* request the missing category is.
C17_MissingCategoryFails ==
    [][\A c \in Reorders :
        (ReorderEnds(c) /\ \E k \in DOMAIN creq[c].list : ~categories[creq[c].list[k].id].exists)
        => /\ cresult'[c] = "CategoryNotFound"
           /\ categories' = categories]_vars

(***************************************************************************)
(* Costs                                                                   *)
(***************************************************************************)
\* unitCost * quantityPerUse, the quantity taken as 1 when it is <= 0
CostOfMaterial(m) == m.cost * (IF m.quantity <= 0 THEN 1 ELSE m.quantity)

CostOfMaterials(materials) ==
    SumSeq([j \in DOMAIN materials |-> CostOfMaterial(materials[j])])

\* C18: the creation and the update of a product store, for every size of
\* the request, productionCost = the sum over its materials of
\* cost * quantity, the quantity taken as 1 when it is <= 0, and
\* profit = price - productionCost.
C18_StoredCostAndProfit ==
    [][(ppc # "done" /\ ppc' = "done" /\ presult' = "ok") =>
        \E id \in ProductIds :
            /\ inventory'[id] # inventory[id]
            /\ preq.kind = "update" => id = preq.id
            /\ preq.kind = "create" => ~inventory[id].exists
            /\ Len(inventory'[id].sizes) = Len(preq.sizes)
            /\ \A k \in DOMAIN preq.sizes :
                 LET size == inventory'[id].sizes[k]
                 IN  /\ size.name = preq.sizes[k].name
                     /\ size.price = preq.sizes[k].price
                     /\ size.materials = preq.sizes[k].materials
                     /\ size.productionCost = CostOfMaterials(preq.sizes[k].materials)
                     /\ size.profit = preq.sizes[k].price - size.productionCost]_vars

\* Materials of cost 2 with quantities 3 and 0 on a size of price 10:
\* the stored cost is 6 + 2 and the stored profit 2.
C18_Witness ==
    /\ ppc = "done"
    /\ presult = "ok"
    /\ preq.kind = "create"
    /\ inventory["Z"].exists
    /\ Len(inventory["Z"].sizes[1].materials) = 2
    /\ inventory["Z"].sizes[1].materials[1].quantity = 3
    /\ inventory["Z"].sizes[1].materials[2].quantity = 0
    /\ inventory["Z"].sizes[1].materials[1].cost = 2
    /\ inventory["Z"].sizes[1].materials[2].cost = 2
    /\ inventory["Z"].sizes[1].price = 10
    /\ inventory["Z"].sizes[1].productionCost = 8
    /\ inventory["Z"].sizes[1].profit = 2

Max(a, b) == IF a >= b THEN a ELSE b

InvalidOrder(r) ==
    \/ ~r.hasItems
    \/ r.items = <<>>
    \/ \E i \in DOMAIN r.items : r.items[i].quantity <= 0
    \/ r.paymentMethod = ""
    \/ ~r.hasTotal

\* C20: an order without items, with an empty list of items, with an item
\* of quantity <= 0, with an empty paymentMethod or without total is
\* rejected with a validation error before any transaction attempt: nothing
\* is read in a transaction and nothing is written.
C20_InvalidOrderRejected ==
    \A p \in Orders :
        (InvalidOrder(req[p]) /\ pc[p] \notin {"idle", "start"})
        => /\ pc[p] = "done"
           /\ result[p] = "ValidationError"
           /\ tx[p].attempt = 0
           /\ applied[p] = {}
           /\ ~orders[p].exists

(***************************************************************************)
(* Reads and writes of a transaction                                       *)
(***************************************************************************)
\* A step of the loops of the body of call p: one transaction.get.
ReadStep(p) ==
    /\ pc[p] = "tx"
    /\ tx[p].step <= Len(Plan(req[p]))
    /\ tx'[p].step # tx[p].step

\* C24: in an attempt of an order, every read (the customer, the product of
\* every item, every material product) is made while no write is staged in
\* the transaction, for every list of items; no read is refused.
C24_OrderReadsBeforeWrites ==
    [][\A p \in Orders :
        ReadStep(p) => (tx[p].writes = <<>> /\ result'[p] # "ReadAfterWrite")]_vars

\* An order of two items with a customer and a material: four reads.
C24_Witness ==
    \E p \in Orders :
        /\ Committed(p)
        /\ req[p].customerId = "C"
        /\ Len(req[p].items) = 2
        /\ req[p].items[1].materials # <<>>
        /\ applied[p] = ExpectedWrites(req[p])

ReorderReadStep(c) ==
    /\ cpc[c] = "tx"
    /\ ctx[c].step <= Len(creq[c].list)
    /\ ctx'[c].step # ctx[c].step

\* C25: in a transaction that changes the positions of two or more
\* categories, every category is read while no write is staged, so that no
\* read is refused by the store.
C25_ReorderReadsBeforeWrites ==
    [][\A c \in Reorders :
        (ReorderReadStep(c) /\ Len(creq[c].list) >= 2)
        => (ctx[c].writes = <<>> /\ cresult'[c] # "ReadAfterWrite")]_vars

(***************************************************************************)
(* Termination of an order                                                 *)
(***************************************************************************)
\* C21: every order call returns.  A read that fails ends the call in that
\* step with its error (NotFound or InsufficientStock) and the attempt is
\* not run again; a refused commit starts the next attempt while fewer than
\* MaxAttempts were made and ends the call with Conflict otherwise; a call
\* that has returned does nothing more.
C21_OrderReturns ==
    /\ \A p \in Orders : (pc[p] = "start") ~> (pc[p] = "done")
    /\ [][\A p \in Orders :
            /\ (ReadStep(p) /\ CheckOutcome(req[p], inventory, customers, tx[p].step) # "")
                => /\ pc'[p] = "done"
                   /\ ErrorKind(result'[p]) =
                        CheckOutcome(req[p], inventory, customers, tx[p].step)
                   /\ tx'[p].attempt = tx[p].attempt
            /\ (pc[p] = "tx" /\ tx'[p].attempt # tx[p].attempt)
                => /\ tx[p].stale
                   /\ tx'[p].attempt = tx[p].attempt + 1
                   /\ tx'[p].attempt <= MaxAttempts
                   /\ pc'[p] = "tx"
            /\ (pc[p] = "tx" /\ tx[p].stale /\ tx[p].step > Len(Plan(req[p]))
                    /\ tx'[p] # tx[p])
                => \/ tx'[p].attempt = tx[p].attempt + 1
                   \/ /\ tx[p].attempt = MaxAttempts
                      /\ pc'[p] = "done"
                      /\ result'[p] = "Conflict"
            /\ pc[p] = "done"
                => (pc'[p] = "done" /\ result'[p] = result[p] /\ tx'[p] = tx[p])]_vars

\* All calls have returned: one after MaxAttempts refused attempts, with
\* Conflict, the other with the success response.
C21_Witness ==
    /\ \A p \in Orders : pc[p] = "done"
    /\ \E p \in Orders : result[p] = "Conflict" /\ tx[p].attempt = MaxAttempts
    /\ \E p \in Orders : result[p] = "ok"

(***************************************************************************)
(* The log and the order documents                                         *)
(***************************************************************************)
\* C22: the log only grows: in every step of an order, a stock adjustment,
\* a change of the positions of the categories or a change of a product, the
\* entries that are there stay, each with all its fields.
C22_LogAppendOnly ==
    [][/\ Len(stockLogs') >= Len(stockLogs)
       /\ \A k \in DOMAIN stockLogs : stockLogs'[k] = stockLogs[k]]_vars

\* An entry of an order and an entry of a stock adjustment are in the log,
\* and the positions of the categories were changed.
C22_Witness ==
    /\ \E k \in DOMAIN stockLogs : stockLogs[k].notes.kind = "order"
    /\ \E k \in DOMAIN stockLogs : stockLogs[k].notes.kind = "manual"
    /\ stockLogs[1].notes.kind = "manual"
    /\ \E c \in Reorders : cpc[c] = "done" /\ cresult[c] = "ok"

\* C23: the commit of an order creates the order document of the call, with
\* the items of the request, also after refused attempts; no other step
\* writes an order document, so a failed call has none and an existing one
\* is never changed, whatever becomes of the materials of the product.
C23_OrderDocumentOnce ==
    [][\A p \in Orders :
        /\ orders[p].exists => orders'[p] = orders[p]
        /\ CommitStep(p) =>
            /\ ~orders[p].exists
            /\ orders'[p].exists
            /\ orders'[p].items = req[p].items
        /\ orders'[p] # orders[p] => CommitStep(p)
        /\ (pc'[p] = "done" /\ result'[p] # "ok") => ~orders'[p].exists]_vars

\* The order was committed by its second attempt, and the materials of the
\* ordered size were changed afterwards.
C23_Witness ==
    \E p \in Orders :
        /\ Committed(p)
        /\ tx[p].attempt = 2
        /\ orders[p].exists
        /\ req[p].items[1].materials # <<>>
        /\ orders[p].items = req[p].items
        /\ ppc = "done"
        /\ presult = "ok"
        /\ preq.kind = "update"
        /\ inventory["P"].sizes[1].quantity = 5
        /\ inventory["P"].sizes[1].materials # InitInventory["P"].sizes[1].materials

(***************************************************************************)
(* The log entries of an order                                             *)
(***************************************************************************)
PairsOfItem(r, i) == [j \in DOMAIN r.items[i].materials |-> <<i, j>>]

RECURSIVE PairSeqUpTo(_, _)
PairSeqUpTo(r, n) ==
    IF n = 0 THEN <<>> ELSE PairSeqUpTo(r, n - 1) \o PairsOfItem(r, n)

\* The (item, material) pairs of a request, in the order of the loops.
PairSeq(r) == PairSeqUpTo(r, Len(r.items))

\* The entries that a step appends to the log.
Appended == [k \in 1..(Len(stockLogs') - Len(stockLogs)) |-> stockLogs'[Len(stockLogs) + k]]

\* C26: the commit of an order appends one log entry for each (item,
\* material) pair of the request, in the order of the pairs, with the uid of
\* the material and minus material.quantity * item.quantity, and nothing
\* else: the deduction of an ordered size is not logged, and an order without
\* materials leaves the log as it is.
C26_LogPerMaterialPair ==
    [][\A p \in Orders :
        CommitStep(p) =>
            LET r == req[p]
                pairs == PairSeq(r)
            IN  /\ Len(stockLogs') = Len(stockLogs) + Len(pairs)
                /\ \A k \in DOMAIN stockLogs : stockLogs'[k] = stockLogs[k]
                /\ \A k \in DOMAIN pairs :
                     LET item == r.items[pairs[k][1]]
                         material == item.materials[pairs[k][2]]
                     IN  /\ Appended[k].notes = [kind |-> "order", order |-> p]
                         /\ Appended[k].productId = material.uid
                         /\ Appended[k].addedStock = -(material.quantity * item.quantity)
                /\ (pairs = <<>>) => stockLogs' = stockLogs]_vars

\* An order of two items, one with a material and one without, committed
\* with a single log entry, which is the entry of the material.
C26_Witness ==
    \E p \in Orders :
        /\ Committed(p)
        /\ Len(req[p].items) = 2
        /\ req[p].items[1].materials = <<>>
        /\ Len(req[p].items[2].materials) = 1
        /\ req[p].items[1].productId # "M"
        /\ req[p].items[2].productId # "M"
        /\ Len(stockLogs) = 1
        /\ stockLogs[1].productId = "M"

\* C27: in every log entry that the commit of an order appends,
\* totalStockBefore is the quantity of the first size of the material product
\* that the transaction read, totalStockAfter is the quantity of that size
\* that the commit stores, addedStock is minus material.quantity *
\* item.quantity, and totalStockAfter = totalStockBefore + addedStock.
C27_LogEntryFields ==
    [][\A p \in Orders :
        CommitStep(p) =>
            LET r == req[p]
                pairs == PairSeq(r)
            IN  \A k \in DOMAIN pairs :
                    LET item == r.items[pairs[k][1]]
                        material == item.materials[pairs[k][2]]
                        e == stockLogs'[Len(stockLogs) + k]
                    IN  /\ e.totalStockBefore = inventory[material.uid].sizes[1].quantity
                        /\ e.totalStockAfter = inventory'[material.uid].sizes[1].quantity
                        /\ e.addedStock = -(material.quantity * item.quantity)
                        /\ e.totalStockAfter = e.totalStockBefore + e.addedStock]_vars

\* The materials that the product document keeps for the size an item names.
StoredMaterials(inv, item) ==
    LET sizes == inv[item.productId].sizes
        named == {k \in DOMAIN sizes : sizes[k].name = item.name}
    IN  IF named = {} THEN <<>> ELSE sizes[CHOOSE k \in named : TRUE].materials

\* What the stored materials of the ordered size take from product u.
StoredDeduction(inv, item, u) ==
    LET ms == StoredMaterials(inv, item)
    IN  SumSeq([j \in DOMAIN ms |-> IF ms[j].uid = u THEN ms[j].quantity ELSE 0])
            * item.quantity

\* C28: the commit of an order of one item lowers every size of every other
\* product by what the materials stored in the ordered size of the product
\* document take from it, whatever materials the request item carries.
C28_DeductsStoredMaterials ==
    [][\A p \in Orders :
        (CommitStep(p) /\ Len(req[p].items) = 1) =>
            LET item == req[p].items[1]
            IN  \A u \in ProductIds \ {item.productId} :
                    inventory[u].exists =>
                        \A k \in DOMAIN inventory[u].sizes :
                            inventory'[u].sizes[k].quantity =
                                inventory[u].sizes[k].quantity
                                    - StoredDeduction(inventory, item, u)]_vars

(***************************************************************************)
(* An order beside a stock adjustment                                      *)
(***************************************************************************)
\* The stock adjustments of size S of product P that answered with success.
AdjustedS ==
    {a \in Adjusts : areq[a].id = "P" /\ areq[a].sizeName = "S"
                     /\ apc[a] = "done" /\ aresult[a] = "ok"}

\* C29: when an order of n units of size S of product P and the stock
\* adjustments have answered, and at most one adjustment of product P
\* succeeded, the quantity of S is the initial one, minus n if the order
\* succeeded, plus the delta of the adjustment if it succeeded: a call that
\* fails leaves nothing and a call that succeeds loses nothing.
C29_OrderBesideAdjust ==
    \A p \in Orders :
        (/\ pc[p] = "done"
         /\ \A a \in Adjusts : apc[a] = "done"
         /\ Cardinality({a \in Adjusts : areq[a].id = "P" /\ aresult[a] = "ok"}) <= 1)
        => inventory["P"].sizes[1].quantity =
                InitInventory["P"].sizes[1].quantity
                - (IF result[p] = "ok" THEN req[p].items[1].quantity ELSE 0)
                + SumSeq([a \in Adjusts |-> IF a \in AdjustedS
                                             THEN areq[a].quantityDelta ELSE 0])

(***************************************************************************)
(* The cost that a stock adjustment stores                                 *)
(***************************************************************************)
\* The write of the stock adjustment a.
AdjustWriteStep(a) == apc[a] = "computed" /\ apc'[a] = "written"

\* C30: the write of a stock adjustment stores, on the size it names,
\* productionCost = the sum over the materials of the size of cost * quantity,
\* without a floor of the quantity, and profit = price - productionCost,
\* whatever the delta and the quantity of the size.
C30_AdjustStoresPlainCost ==
    [][\A a \in Adjusts :
        AdjustWriteStep(a) =>
            \A k \in DOMAIN inventory'[areq[a].id].sizes :
                LET size == inventory'[areq[a].id].sizes[k]
                    cost == SumSeq([m \in DOMAIN size.materials |->
                                size.materials[m].cost * size.materials[m].quantity])
                IN  size.name = areq[a].sizeName =>
                        /\ size.productionCost = cost
                        /\ size.profit = size.price - cost]_vars

\* Size L, saved with cost 2 and profit 10 for its material of quantity 0,
\* has cost 0 and profit 12 after a successful stock adjustment.
C30_Witness ==
    /\ InitInventory["P"].sizes[2].productionCost = 2
    /\ InitInventory["P"].sizes[2].profit = 10
    /\ \E a \in Adjusts :
        /\ apc[a] = "done"
        /\ aresult[a] = "ok"
        /\ areq[a].id = "P"
        /\ areq[a].sizeName = "L"
        /\ inventory["P"].sizes[2].name = "L"
        /\ inventory["P"].sizes[2].productionCost = 0
        /\ inventory["P"].sizes[2].profit = 12

(***************************************************************************)
(* The print of the receipt                                                *)
(***************************************************************************)
\* The call of printOrder of order p.
PrintStarts(p) == printed[p] # "opening" /\ printed'[p] = "opening"

\* C31: printOrder is called for an order only in the step that follows its
\* commit, when its documents are written, and only once; an order that has
\* answered with success has had its call, and an order that failed, at the
\* validation, at a read or at the commit, never has one.
C31_PrintAfterCommitOnce ==
    [][\A p \in Orders :
        /\ PrintStarts(p) =>
            /\ pc[p] = "committed"
            /\ printed[p] = "none"
            /\ orders[p].exists
            /\ applied[p] = ExpectedWrites(req[p])
        /\ printed[p] # "none" => printed'[p] # "none"
        /\ (pc'[p] = "done" /\ result'[p] = "ok") => printed'[p] # "none"
        /\ (pc'[p] = "done" /\ result'[p] # "ok") => printed'[p] = "none"
        /\ pc'[p] \in {"idle", "start", "tx", "committed"} => printed'[p] = "none"]_vars

\* One order was committed after a refused attempt and printed, the other
\* failed and has no print.
C31_Witness ==
    \E p, q \in Orders :
        /\ pc[p] = "done"
        /\ result[p] = "ok"
        /\ tx[p].attempt = 2
        /\ printed[p] = "printed"
        /\ pc[q] = "done"
        /\ result[q] # "ok"
        /\ printed[q] = "none"

(***************************************************************************)
(* Stock adjustments side by side                                          *)
(***************************************************************************)
\* C32: when the stock adjustments of size S of product P have all answered
\* with success, and no order was committed, the quantity of S is the
\* initial one plus the sum of their deltas.
C32_NoAdjustLost ==
    (/\ \A a \in Adjusts : a \in AdjustedS
     /\ \A p \in Orders : ~orders[p].exists)
    => inventory["P"].sizes[1].quantity =
            InitInventory["P"].sizes[1].quantity
            + SumSeq([a \in Adjusts |-> areq[a].quantityDelta])

(***************************************************************************)
(* The total of a product                                                  *)
(***************************************************************************)
\* C33: every product document that an order has written, and so carries a
\* totalQuantity, has totalQuantity = the sum of the quantities of its
\* sizes, in every state that orders and stock adjustments reach.
C33_TotalIsSumOfSizes ==
    \A id \in ProductIds :
        (inventory[id].exists /\ inventory[id].totalQuantity # <<>>)
        => inventory[id].totalQuantity[1] = TotalQuantity(inventory[id].sizes)

(***************************************************************************)
(* Several deductions of one document                                      *)
(***************************************************************************)
\* What the items of a request take from the size of product u called name.
ItemDeduction(r, u, name) ==
    SumSeq([i \in DOMAIN r.items |->
        IF r.items[i].productId = u /\ r.items[i].name = name
        THEN r.items[i].quantity ELSE 0])

\* What the materials of the items of a request take from each size of u.
MaterialDeduction(r, u) ==
    SumSeq([i \in DOMAIN r.items |->
        SumSeq([j \in DOMAIN r.items[i].materials |->
            IF r.items[i].materials[j].uid = u
            THEN r.items[i].materials[j].quantity * r.items[i].quantity ELSE 0])])

PositiveOrder(r) == \A i \in DOMAIN r.items : r.items[i].quantity > 0

\* C34: the commit of an order with positive quantities lowers every size of
\* every product by the sum of all the deductions that the order stages
\* against it, of its items and of their materials, and no order is committed
\* when that sum is more than the quantity of the size.
C34_DeductionsAddUp ==
    [][\A p \in Orders :
        (CommitStep(p) /\ PositiveOrder(req[p])) =>
            \A u \in ProductIds :
                inventory[u].exists =>
                    \A k \in DOMAIN inventory[u].sizes :
                        LET size == inventory[u].sizes[k]
                            sum == ItemDeduction(req[p], u, size.name)
                                     + MaterialDeduction(req[p], u)
                        IN  /\ sum <= size.quantity
                            /\ inventory'[u].sizes[k].quantity = size.quantity - sum]_vars

(***************************************************************************)
(* The log as a history                                                    *)
(***************************************************************************)
\* The entries of the log of the size of product id called name.
EntriesOf(id, name) ==
    {k \in DOMAIN stockLogs : stockLogs[k].productId = id /\ stockLogs[k].sizeName = name}

\* The orders in which a set of entries can be put.
Orderings(K) ==
    {f \in [1..Cardinality(K) -> K] : \A i, j \in 1..Cardinality(K) : f[i] = f[j] => i = j}

\* f is a chain: each entry starts where the one before it ends, and the
\* last one ends at quantity q.
Chain(f, q) ==
    /\ \A i \in 2..Len(f) : stockLogs[f[i]].totalStockBefore = stockLogs[f[i - 1]].totalStockAfter
    /\ stockLogs[f[Len(f)]].totalStockAfter = q

Quiescent ==
    /\ \A p \in Orders : pc[p] \in {"idle", "done"}
    /\ \A a \in Adjusts : apc[a] \in {"idle", "done"}

\* C35: when every order and every stock adjustment has answered, the
\* entries of the log of each size can be put in an order in which each
\* totalStockBefore is the totalStockAfter of the entry before it and the
\* totalStockAfter of the last one is the stored quantity of the size.
C35_LogIsHistory ==
    Quiescent =>
        \A id \in ProductIds :
            inventory[id].exists =>
                \A k \in DOMAIN inventory[id].sizes :
                    LET name == inventory[id].sizes[k].name
                        K == EntriesOf(id, name)
                    IN  K # {} =>
                            \E f \in Orderings(K) : Chain(f, inventory[id].sizes[k].quantity)

(***************************************************************************)
(* The sizes that a call does not name                                     *)
(***************************************************************************)
\* No item of request r names the size of product u called name.
Unnamed(r, u, name) ==
    \A i \in DOMAIN r.items : ~(r.items[i].productId = u /\ r.items[i].name = name)

\* C36: the write of a stock adjustment leaves the quantity of every size of
\* the product other than the one it names as it is stored when the write
\* happens, whatever other calls have written since the adjustment read the
\* product; the commit of an order leaves every size of an ordered product
\* that no item names, and no material uses, as it is stored.
C36_OtherSizesKept ==
    [][/\ \A a \in Adjusts :
            AdjustWriteStep(a) =>
                \A k \in DOMAIN inventory[areq[a].id].sizes :
                    inventory[areq[a].id].sizes[k].name # areq[a].sizeName =>
                        inventory'[areq[a].id].sizes[k].quantity =
                            inventory[areq[a].id].sizes[k].quantity
       /\ \A p \in Orders :
            (CommitStep(p) /\ PlainOrder(req[p])) =>
                \A i \in DOMAIN req[p].items :
                    LET u == req[p].items[i].productId
                    IN  \A k \in DOMAIN inventory[u].sizes :
                            Unnamed(req[p], u, inventory[u].sizes[k].name) =>
                                inventory'[u].sizes[k].quantity = inventory[u].sizes[k].quantity]_vars

(***************************************************************************)
(* The names of the categories                                             *)
(***************************************************************************)
\* The commit of the change of positions c.
ReorderCommitStep(c) == cpc[c] = "tx" /\ cpc'[c] = "done" /\ cresult'[c] = "ok"

\* C37: the commit of a change of positions leaves the name of every
\* category, named in the request or not, as it is stored when the commit
\* happens, also when a change of the name was stored after the listing of
\* the collection.
C37_ReorderKeepsNames ==
    [][\A c \in Reorders :
        ReorderCommitStep(c) =>
            \A k \in DOMAIN CategoryIds :
                LET id == CategoryIds[k]
                IN  /\ categories'[id].exists = categories[id].exists
                    /\ categories[id].exists => categories'[id].name = categories[id].name]_vars

(***************************************************************************)
(* The direction of the deductions                                         *)
(***************************************************************************)
\* C38: the commit of an order, whatever request passed the validation,
\* raises the quantity of no size of any product.
C38_OrderNeverAddsStock ==
    [][\A p \in Orders :
        CommitStep(p) =>
            \A u \in ProductIds :
                inventory[u].exists =>
                    \A k \in DOMAIN inventory[u].sizes :
                        inventory'[u].sizes[k].quantity <= inventory[u].sizes[k].quantity]_vars

============================================================================
